---- MODULE Spec2Model ----
(***************************************************************************)
(* A model of the Obsidian "Open in Claude Code" plugin (src/main.ts):     *)
(* path validation against the vault root, binary detection with its       *)
(* cache, the two escaping layers, and the terminal launch with its        *)
(* AppleScript temp file.                                                  *)
(*                                                                         *)
(* Strings are sequences of characters.  An ordinary character is written  *)
(* "a" or "b"; a run of ordinary characters that the code never looks      *)
(* into ("usr", "claude") is written as one element.  The characters the   *)
(* code does look at ("/", ".", "'", "\"", "\\", " ", "\n", "-", "@") are  *)
(* always elements of their own.                                           *)
(***************************************************************************)
EXTENDS Integers, Sequences, FiniteSets, TLC

VARIABLES
    claudeCodePath,     \* main.ts:11  the cached binary path, or Null
    detectionAttempted, \* main.ts:12  the lookup-attempted flag
    pc,                 \* per invocation: where openInClaudeCode stands
    file,               \* per invocation: what getActiveFile() returned
    claudePath,         \* per invocation: the local const of main.ts:27
    served,             \* per invocation: how getClaudeCodePath answered
    whichIdx,           \* per invocation: the candidate whose `which` runs
    tempFile,           \* per invocation: the clock value in its temp name
    submission,         \* per invocation: the osascript process it spawned
    whichArgs,          \* per invocation: the names it passed to `which`
    notices,            \* per invocation: the Notice texts it raised
    outcome,            \* per invocation: how the invocation ended
    caught,             \* per invocation: the error its catch received
    exited,             \* per invocation: how its osascript process exited
    cleanup,            \* per invocation: how its unlinkSync went
    binaryRead,         \* per invocation: this.claudeCodePath as main.ts:175 read it
    tmp,                \* the temp directory: file name -> writer, or Null
    now,                \* Date.now()
    detectCalls,        \* how often detectClaudeCode was entered
    fsAtDetect,         \* the known-location files existing at detection
    whichSeen,          \* the `which` results the detection received
    names,              \* the candidate names detectClaudeCode loops over
    arg,                \* input of the function under test (pure specs)
    root,               \* the vault base path of the function under test
    res                 \* its result, or Unset

vars == <<claudeCodePath, detectionAttempted, pc, file, claudePath, served,
          whichIdx, tempFile, submission, whichArgs, notices, outcome, caught,
          exited, cleanup, binaryRead, tmp, now, detectCalls, fsAtDetect, whichSeen, names,
          arg, root, res>>

progVars == <<claudeCodePath, detectionAttempted, pc, file, claudePath,
              served, whichIdx, tempFile, submission, whichArgs, notices, outcome,
              caught, exited, cleanup, binaryRead, tmp, now, detectCalls,
              fsAtDetect, whichSeen, names>>

pureVars == <<arg, root, res>>

\* null, and "not assigned yet", as strings no real string equals
Null == <<"#null">>
Unset == <<"#unset">>

(***************************************************************************)
(* Bounds of the model.                                                    *)
(***************************************************************************)
NumInv == 2        \* invocations of the command in one session
MaxClock == 1      \* Date.now() ranges over 0..MaxClock
MaxKnown == 2      \* known-location binaries installed at detection time
MaxPathLen == 6    \* length of the document paths given to getFilePaths
MaxArgLen == 3     \* length of the strings given to the escaping functions

Inv == 1..NumInv

(***************************************************************************)
(* Strings.                                                                *)
(***************************************************************************)
RECURSIVE StringsUpTo(_, _)
StringsUpTo(alphabet, n) ==
    IF n = 0 THEN {<<>>}
    ELSE LET shorter == StringsUpTo(alphabet, n - 1)
         IN  shorter \cup {Append(s, c) : s \in shorter, c \in alphabet}

\* String.prototype.startsWith
startsWith(s, p) == Len(p) <= Len(s) /\ SubSeq(s, 1, Len(p)) = p

\* String.prototype.includes
includes(s, p) ==
    \E i \in 1..(Len(s) - Len(p) + 1) : SubSeq(s, i, i + Len(p) - 1) = p

WhiteSpace == {" ", "\n"}

\* String.prototype.trim
RECURSIVE trimStart(_)
trimStart(s) ==
    IF s # <<>> /\ Head(s) \in WhiteSpace THEN trimStart(Tail(s)) ELSE s

RECURSIVE trimEnd(_)
trimEnd(s) ==
    IF s # <<>> /\ s[Len(s)] \in WhiteSpace
    THEN trimEnd(SubSeq(s, 1, Len(s) - 1)) ELSE s

trim(s) == trimEnd(trimStart(s))

\* Array.prototype.join(' ')
RECURSIVE joinWith(_, _)
joinWith(parts, glue) ==
    IF parts = <<>> THEN <<>>
    ELSE IF Len(parts) = 1 THEN parts[1]
    ELSE parts[1] \o glue \o joinWith(Tail(parts), glue)

(***************************************************************************)
(* Node's path module, POSIX flavour (the plugin is macOS only).           *)
(***************************************************************************)
sep == "/"

\* The segments of a path: the runs between separators, empty runs included.
RECURSIVE segments(_)
segments(p) ==
    IF \A i \in 1..Len(p) : p[i] # sep THEN <<p>>
    ELSE LET i == CHOOSE j \in 1..Len(p) :
                      p[j] = sep /\ \A k \in 1..(j - 1) : p[k] # sep
         IN  <<SubSeq(p, 1, i - 1)>> \o segments(SubSeq(p, i + 1, Len(p)))

DotDot == <<".", ".">>
Dot == <<".">>

\* normalizeString: drop empty and "." segments; ".." removes the segment
\* before it, or stays when nothing is left to remove and the path is
\* relative.
RECURSIVE normalizeSegs(_, _, _)
normalizeSegs(segs, acc, allowAboveRoot) ==
    IF segs = <<>> THEN acc
    ELSE LET s == Head(segs)
             next ==
                 IF s = <<>> \/ s = Dot THEN acc
                 ELSE IF s = DotDot
                 THEN IF acc # <<>> /\ acc[Len(acc)] # DotDot
                      THEN SubSeq(acc, 1, Len(acc) - 1)
                      ELSE IF allowAboveRoot THEN Append(acc, DotDot)
                      ELSE acc
                 ELSE Append(acc, s)
         IN  normalizeSegs(Tail(segs), next, allowAboveRoot)

normalizeString(p, allowAboveRoot) ==
    joinWith(normalizeSegs(segments(p), <<>>, allowAboveRoot), <<sep>>)

\* path.isAbsolute
isAbsolute(p) == Len(p) > 0 /\ p[1] = sep

\* path.normalize
normalize(p) ==
    IF Len(p) = 0 THEN Dot
    ELSE LET abs == isAbsolute(p)
             trailing == p[Len(p)] = sep
             n == normalizeString(p, ~abs)
         IN  IF Len(n) = 0
             THEN IF abs THEN <<sep>>
                  ELSE IF trailing THEN <<".", sep>> ELSE Dot
             ELSE LET t == IF trailing THEN Append(n, sep) ELSE n
                  IN  IF abs THEN <<sep>> \o t ELSE t

\* path.join(a, b)
join(a, b) ==
    LET joined == IF Len(a) = 0 THEN b
                  ELSE IF Len(b) = 0 THEN a
                  ELSE a \o <<sep>> \o b
    IN  IF Len(joined) = 0 THEN Dot ELSE normalize(joined)

\* process.cwd(), which path.resolve prepends to a relative path
Cwd == <<sep, "cwd">>

\* path.resolve(p)
resolve(p) ==
    LET full == IF isAbsolute(p) THEN p ELSE Cwd \o <<sep>> \o p
    IN  <<sep>> \o normalizeString(full, FALSE)

\* path.dirname
dirname(p) ==
    IF Len(p) = 0 THEN Dot
    ELSE LET hasRoot == p[1] = sep
             \* the last separator that has a non-separator after it
             ends == {i \in 2..Len(p) :
                         /\ p[i] = sep
                         /\ \E j \in (i + 1)..Len(p) : p[j] # sep
                         /\ \A j \in (i + 1)..Len(p) :
                               p[j] = sep => \A k \in j..Len(p) : p[k] = sep}
         IN  IF ends = {}
             THEN IF hasRoot THEN <<sep>> ELSE Dot
             ELSE LET end == CHOOSE i \in ends : TRUE
                  IN  IF hasRoot /\ end = 2 THEN <<sep, sep>>
                      ELSE SubSeq(p, 1, end - 1)

(***************************************************************************)
(* PathValidator: getFilePaths (main.ts:64-96).                            *)
(***************************************************************************)
\* Revision part_001:57-65 of getFilePaths: join and dirname, no validation.
getFilePathsUnvalidated(basePath, filePath) ==
    LET fullPath == join(basePath, filePath)
    IN  [fullPath |-> fullPath, directory |-> dirname(fullPath)]

\* getFilePaths with only its second check, of the resolved path.
getFilePathsResolvedCheckOnly(basePath, filePath) ==
    LET fullPath == join(basePath, normalize(filePath))
    IN  IF ~startsWith(resolve(fullPath), Append(resolve(basePath), sep))
           /\ resolve(fullPath) # resolve(basePath)
        THEN [fullPath |-> Null, directory |-> Null]
        ELSE [fullPath |-> fullPath, directory |-> dirname(fullPath)]

\* The null result of getFilePaths
NoPaths == [fullPath |-> Null, directory |-> Null]

getFilePaths(basePath, filePath) ==
    IF Len(basePath) = 0 \/ trim(basePath) = <<>> THEN NoPaths
    ELSE LET normalizedFilePath == normalize(filePath)
         IN  IF includes(normalizedFilePath, DotDot)
                \/ isAbsolute(normalizedFilePath)
             THEN NoPaths
             ELSE LET fullPath == join(basePath, normalizedFilePath)
                      resolvedPath == resolve(fullPath)
                      resolvedBase == resolve(basePath)
                  IN  IF ~startsWith(resolvedPath, Append(resolvedBase, sep))
                         /\ resolvedPath # resolvedBase
                      THEN NoPaths
                      ELSE [fullPath |-> fullPath,
                            directory |-> dirname(fullPath)]

(***************************************************************************)
(* CommandEscaper: escapeShellArg (main.ts:163-167) and the escaping of    *)
(* the command inside the AppleScript literal (main.ts:189,191).           *)
(***************************************************************************)
Quote == "'"
DQuote == "\""
BSlash == "\\"

\* String.prototype.replace with a one-character global pattern
RECURSIVE replaceAll(_, _, _)
replaceAll(s, c, rep) ==
    IF s = <<>> THEN <<>>
    ELSE (IF Head(s) = c THEN rep ELSE <<Head(s)>>)
         \o replaceAll(Tail(s), c, rep)

\* String.prototype.replace with a string pattern: the first match only
RECURSIVE replaceFirst(_, _, _)
replaceFirst(s, c, rep) ==
    IF s = <<>> THEN <<>>
    ELSE IF Head(s) = c THEN rep \o Tail(s)
    ELSE <<Head(s)>> \o replaceFirst(Tail(s), c, rep)

escapeShellArgFirstOnly(a) ==
    <<Quote>> \o replaceFirst(a, Quote, <<Quote, BSlash, Quote, Quote>>)
              \o <<Quote>>

escapeShellArg(a) ==
    <<Quote>> \o replaceAll(a, Quote, <<Quote, BSlash, Quote, Quote>>)
              \o <<Quote>>

\* The two replaces in the other order: the backslash put before a double
\* quote is doubled again.
escapeForAppleScriptSwapped(s) ==
    replaceAll(replaceAll(s, DQuote, <<BSlash, DQuote>>),
               BSlash, <<BSlash, BSlash>>)

escapeForAppleScript(s) ==
    replaceAll(replaceAll(s, BSlash, <<BSlash, BSlash>>),
               DQuote, <<BSlash, DQuote>>)

(***************************************************************************)
(* What the two consumers of the escaped command do with it: AppleScript   *)
(* reads the text between the double quotes of `do script "..."` as a      *)
(* string literal, and the shell of the new tab splits the command into    *)
(* words.  Failed stands for a text the consumer does not read as one      *)
(* literal, or as a complete command.                                      *)
(***************************************************************************)
Failed == <<"#failed">>

RECURSIVE appleScriptLiteral(_)
appleScriptLiteral(s) ==
    IF s = <<>> THEN <<>>
    ELSE IF Head(s) = DQuote THEN Failed      \* the literal ends here
    ELSE IF Head(s) = BSlash
    THEN IF Len(s) < 2 \/ s[2] \notin {BSlash, DQuote} THEN Failed
         ELSE LET rest == appleScriptLiteral(SubSeq(s, 3, Len(s)))
              IN  IF rest = Failed THEN Failed ELSE <<s[2]>> \o rest
    ELSE LET rest == appleScriptLiteral(Tail(s))
         IN  IF rest = Failed THEN Failed ELSE <<Head(s)>> \o rest

\* POSIX shell word splitting with its three quoting mechanisms.  A command
\* the shell cannot complete reads as the one word Failed.
RECURSIVE shellParse(_, _, _, _, _)
shellParse(s, mode, cur, inWord, words) ==
    IF s = <<>>
    THEN IF mode # "plain" THEN <<Failed>>
         ELSE IF inWord THEN Append(words, cur) ELSE words
    ELSE LET c == Head(s)
             t == Tail(s)
         IN  CASE mode = "single" ->
                    IF c = Quote THEN shellParse(t, "plain", cur, TRUE, words)
                    ELSE shellParse(t, "single", Append(cur, c), TRUE, words)
               [] mode = "double" ->
                    IF c = DQuote THEN shellParse(t, "plain", cur, TRUE, words)
                    ELSE IF c = BSlash /\ t # <<>> /\ Head(t) \in {BSlash, DQuote}
                    THEN shellParse(Tail(t), "double", Append(cur, Head(t)),
                                    TRUE, words)
                    ELSE shellParse(t, "double", Append(cur, c), TRUE, words)
               [] OTHER ->
                    IF c = Quote THEN shellParse(t, "single", cur, TRUE, words)
                    ELSE IF c = DQuote
                    THEN shellParse(t, "double", cur, TRUE, words)
                    ELSE IF c = BSlash
                    THEN IF t = <<>> THEN <<Failed>>
                         ELSE shellParse(Tail(t), "plain", Append(cur, Head(t)),
                                         TRUE, words)
                    ELSE IF c \in WhiteSpace
                    THEN shellParse(t, "plain", <<>>, FALSE,
                                    IF inWord THEN Append(words, cur) ELSE words)
                    ELSE shellParse(t, "plain", Append(cur, c), TRUE, words)

shellWords(s) ==
    IF s = Failed THEN <<Failed>>
    ELSE shellParse(s, "plain", <<>>, FALSE, <<>>)

(***************************************************************************)
(* BinaryLocator: detectClaudeCode (main.ts:114-161).                      *)
(***************************************************************************)
binaryNames == << <<"claude", "-", "code">>, <<"claude">> >>

\* process.env.USER
EnvUser == <<"user">>

locationPatterns ==
    << <<"/", "usr", "/", "local", "/", "bin", "/">>,
       <<"/", "Users", "/">> \o EnvUser \o <<"/", ".", "local", "/", "bin", "/">>,
       <<"/", "opt", "/", "homebrew", "/", "bin", "/">> >>

\* The characters of [a-zA-Z0-9_-]
NameChars == {"claude", "code", "a", "b", "-", "_"}

isValidBinaryName(name) ==
    Len(name) > 0 /\ \A i \in 1..Len(name) : name[i] \in NameChars

\* The known-location candidates in the order the two loops of
\* main.ts:131-132 visit them: every name under the first directory, then
\* every name under the second, and so on.
knownCandidates ==
    [n \in 1..(Len(locationPatterns) * Len(names)) |->
        LET p == ((n - 1) \div Len(names)) + 1
            b == ((n - 1) % Len(names)) + 1
        IN  [binary |-> names[b],
             fullPath |-> locationPatterns[p] \o names[b]]]

KnownPaths == {knownCandidates[n].fullPath : n \in DOMAIN knownCandidates}

\* The last existing candidate instead of the first.
detectKnownLastHit(fs) ==
    LET hits == {n \in DOMAIN knownCandidates :
                    /\ isValidBinaryName(knownCandidates[n].binary)
                    /\ knownCandidates[n].fullPath \in fs}
    IN  IF hits = {} THEN Null
        ELSE knownCandidates[CHOOSE n \in hits : \A m \in hits : n >= m].fullPath

\* main.ts:131-140 with fs.existsSync answering from the set fs
detectKnown(fs) ==
    LET hits == {n \in DOMAIN knownCandidates :
                    /\ isValidBinaryName(knownCandidates[n].binary)
                    /\ knownCandidates[n].fullPath \in fs}
    IN  IF hits = {} THEN Null
        ELSE knownCandidates[CHOOSE n \in hits : \A m \in hits : n <= m].fullPath

\* A PATH loop without the check of main.ts:144.
nextWhichNoSkip(k) == IF k <= Len(names) THEN k ELSE 0

\* The next candidate at or after k that the PATH loop does not skip, or 0.
nextWhich(k) ==
    LET ks == {j \in k..Len(names) : isValidBinaryName(names[j])}
    IN  IF ks = {} THEN 0 ELSE CHOOSE j \in ks : \A m \in ks : j <= m

\* What `which <name>` can answer: a failure (non-zero exit, execAsync
\* rejects), or a standard output.
WhichError == <<"#error">>
PathDir == <<"/", "p", "/">>
WhichResults(name) ==
    {WhichError,
     PathDir \o name \o <<"\n">>,
     <<>>,
     name \o <<"\n">>,
     PathDir \o name \o <<"\n">> \o PathDir \o name \o <<"\n">>}

\* The lookup before its result was validated (part_001:98-100): whatever
\* a successful `which` printed, trimmed.
whichPathUnvalidated(out) ==
    IF out = WhichError THEN Null ELSE trim(out)

\* main.ts:148-154: the path accepted from a `which` answer, or Null
whichPath(out) ==
    IF out = WhichError THEN Null
    ELSE LET foundPath == trim(out)
         IN  IF foundPath # <<>> /\ ~includes(foundPath, <<"\n">>)
                /\ isAbsolute(foundPath)
             THEN foundPath ELSE Null

(***************************************************************************)
(* TerminalLauncher: launchTerminal (main.ts:169-221).                     *)
(***************************************************************************)
\* The command without the marker in front of the note path.
shellCommandNoMarker(directory, binary, notePath) ==
    joinWith(<< <<"cd">>,
                escapeShellArg(directory),
                <<"&", "&">>,
                escapeShellArg(binary),
                escapeShellArg(notePath) >>, <<" ">>)

\* main.ts:171-177
shellCommand(directory, binary, notePath) ==
    joinWith(<< <<"cd">>,
                escapeShellArg(directory),
                <<"&", "&">>,
                escapeShellArg(binary),
                escapeShellArg(<<"@">> \o notePath) >>, <<" ">>)

\* The process started at main.ts:203, with what its script makes the
\* terminal run.
osascript(directory, binary, notePath, temp) ==
    [tempFile |-> temp,
     notePath |-> notePath,
     directory |-> directory,
     script |-> escapeForAppleScript(shellCommand(directory, binary, notePath))]

(***************************************************************************)
(* The command handler openInClaudeCode (main.ts:22-46).  Each invocation  *)
(* runs from one suspension point to the next without interleaving: the    *)
(* event loop is single-threaded, and the code awaits only the `which`     *)
(* processes of the detection and the osascript process of the launch.     *)
(***************************************************************************)
\* adapter.getBasePath(), held in root
BasePath == <<"/", "vault">>

\* What getActiveFile() can return: nothing, or a file with its
\* vault-relative path and its extension.
NoFile == [path |-> Null, extension |-> Null]
UnsetFile == [path |-> Unset, extension |-> Unset]
DocPaths ==
    {<<"a", ".", "md">>,
     <<"n", "/", "b", "'", "s", " ", "c", ".", "md">>,
     <<".", ".", "/", "outside", ".", "md">>,
     <<".", ".", "/", "vault", "2", "/", "a", ".", "md">>,
     <<"/", "etc", "/", "a", ".", "md">>}
ActiveFiles ==
    {NoFile, [path |-> <<"a", ".", "txt">>, extension |-> <<"txt">>]}
    \cup {[path |-> p, extension |-> <<"md">>] : p \in DocPaths}

\* The known-location files that can exist when the detection runs: up to
\* MaxKnown of both names in the first directory and the first name in the
\* last.
Installable == {knownCandidates[n].fullPath : n \in {1, 2, 5}}
FsStates == {fs \in SUBSET Installable : Cardinality(fs) <= MaxKnown}

\* The launcher's fields (main.ts:11-12) as one record.
Self(cp, attempted) == [claudeCodePath |-> cp, detectionAttempted |-> attempted]

\* What writeFileSync (main.ts:200) can do: write the file, fail before
\* the file exists, or fail after it has created or truncated the file.
WriteResults == {"written", "failed", "truncated"}

\* A run of the handler up to its next suspension or its end: where it
\* stands, the notice it raised, how it ended, what became of the temp file,
\* the processes it started, the error it threw or caught, and the
\* launcher's fields as it leaves them.
Ended(kind, self) ==
    [pc |-> "done", notice |-> kind, outcome |-> kind, write |-> "none",
     subs |-> <<>>, caught |-> "none", read |-> Unset, self |-> self]

\* A run that ends by throwing err.
Thrown(err, self) ==
    [pc |-> "done", notice |-> "none", outcome |-> "thrown", write |-> "none",
     subs |-> <<>>, caught |-> err, read |-> Unset, self |-> self]

\* A handler without its try/catch.
catchNothing(r) == r

\* main.ts:42-45: whatever was thrown inside the handler becomes the
\* 'Failed to launch' notice, and the handler returns.
catch(r) ==
    IF r.outcome = "thrown"
    THEN [r EXCEPT !.notice = "LaunchFailure", !.outcome = "LaunchFailure"]
    ELSE r

\* One exec for each branch of the script instead of one for the script.
launchTerminalTwice(directory, notePath, self, clock, write) ==
    IF self.claudeCodePath = Null
    THEN [Thrown("TypeError", self) EXCEPT !.read = self.claudeCodePath]
    ELSE IF write # "written"
    THEN [Thrown("write", self) EXCEPT !.write = write,
                                       !.read = self.claudeCodePath]
    ELSE [pc |-> "osascript", notice |-> "none", outcome |-> "none",
          write |-> write,
          subs |-> <<osascript(directory, self.claudeCodePath, notePath, clock),
                     osascript(directory, self.claudeCodePath, notePath, clock)>>,
          caught |-> "none", read |-> self.claudeCodePath, self |-> self]

\* A launch that forgets the binary when it cannot write its script, so
\* that the next invocation looks for it again.
launchTerminalForgets(directory, notePath, self, clock, write) ==
    IF self.claudeCodePath = Null
    THEN [Thrown("TypeError", self) EXCEPT !.read = self.claudeCodePath]
    ELSE IF write # "written"
    THEN [Thrown("write", Self(Null, FALSE)) EXCEPT !.write = write,
                                                     !.read = self.claudeCodePath]
    ELSE [pc |-> "osascript", notice |-> "none", outcome |-> "none",
          write |-> write,
          subs |-> <<osascript(directory, self.claudeCodePath, notePath, clock)>>,
          caught |-> "none", read |-> self.claudeCodePath, self |-> self]

\* launchTerminal (main.ts:169-221) up to the start of osascript.  self
\* holds the launcher's fields: main.ts:175 reads this.claudeCodePath (null
\* makes escapeShellArg throw a TypeError), and no line assigns a field.
\* clock is Date.now() and write is what writeFileSync does; a write error
\* is rethrown (main.ts:218-220) with the file left as the write left it.
launchTerminal(directory, notePath, self, clock, write) ==
    IF self.claudeCodePath = Null
    THEN [Thrown("TypeError", self) EXCEPT !.read = self.claudeCodePath]
    ELSE IF write # "written"
    THEN [Thrown("write", self) EXCEPT !.write = write,
                                       !.read = self.claudeCodePath]
    ELSE [pc |-> "osascript", notice |-> "none", outcome |-> "none",
          write |-> write,
          subs |-> <<osascript(directory, self.claudeCodePath, notePath, clock)>>,
          caught |-> "none", read |-> self.claudeCodePath, self |-> self]

\* A check of main.ts:28 that lets every result through.
FalsyNever(cp) == FALSE

\* !claudePath of main.ts:28: null and the empty string
Falsy(cp) == cp = Null \/ cp = <<>>

\* The handler without its check of main.ts:28.
afterLocateNoNullCheck(f, cp, self, clock, write) ==
    LET filePaths == getFilePaths(root, f.path)
    IN  IF filePaths = NoPaths THEN Ended("InvalidPath", self)
        ELSE catch(launchTerminal(filePaths.directory, filePaths.fullPath,
                                  self, clock, write))

\* main.ts:28-45, from the result cp of getClaudeCodePath on: the notice
\* for a missing binary, the path validation, launchTerminal, and the
\* catch around them.
afterLocate(f, cp, self, clock, write) ==
    IF Falsy(cp) THEN Ended("BinaryNotFound", self)
    ELSE LET filePaths == getFilePaths(root, f.path)
         IN  IF filePaths = NoPaths THEN Ended("InvalidPath", self)
             ELSE catch(launchTerminal(filePaths.directory,
                                       filePaths.fullPath, self, clock, write))

\* An invocation awaiting a `which` process.
Waiting(k, self) ==
    [pc |-> "which", notice |-> "none", outcome |-> "none", write |-> "none",
     subs |-> <<>>, caught |-> "none", read |-> Unset, self |-> self]

\* The effect on invocation i, on the temp directory and on the launcher's
\* fields of a run that ends as r says.
Proceed(i, r) ==
    /\ pc' = [pc EXCEPT ![i] = r.pc]
    /\ notices' = [notices EXCEPT
                     ![i] = IF r.notice = "none" THEN @ ELSE Append(@, r.notice)]
    /\ outcome' = [outcome EXCEPT ![i] = r.outcome]
    /\ caught' = [caught EXCEPT ![i] = r.caught]
    /\ binaryRead' = [binaryRead EXCEPT
                        ![i] = IF r.read = Unset THEN @ ELSE r.read]
    /\ tempFile' = [tempFile EXCEPT ![i] = IF r.write # "none" THEN now ELSE @]
    /\ submission' = [submission EXCEPT ![i] = @ \o r.subs]
    /\ tmp' = IF r.write \in {"written", "truncated"}
              THEN [tmp EXCEPT ![now] = i] ELSE tmp
    /\ claudeCodePath' = r.self.claudeCodePath
    /\ detectionAttempted' = r.self.detectionAttempted

\* A handler that validates the path right after the type check, before it
\* looks for the binary.
getActiveMarkdownFileThenPath(f) ==
    IF f = NoFile THEN "NoActiveDocument"
    ELSE IF f.extension # <<"md">> THEN "UnsupportedDocumentType"
    ELSE IF getFilePaths(root, f.path) = NoPaths THEN "InvalidPath"
    ELSE "none"

\* getActiveMarkdownFile (main.ts:48-62): the notice it raises, or "none"
getActiveMarkdownFile(f) ==
    IF f = NoFile THEN "NoActiveDocument"
    ELSE IF f.extension # <<"md">> THEN "UnsupportedDocumentType"
    ELSE "none"

\* A cache that keeps only a found path, and looks again after a failure.
cacheHitOnlyIfFound == detectionAttempted /\ claudeCodePath # Null

\* main.ts:99
cacheHit == detectionAttempted

\* Whether an invocation on f runs the detection, and whether one that got
\* cp from getClaudeCodePath reaches writeFileSync: the inputs of a step
\* are drawn only where the step reads them.
detects(f) == getActiveMarkdownFile(f) = "none" /\ ~cacheHit
writes(f, cp) ==
    /\ getActiveMarkdownFile(f) = "none"
    /\ ~Falsy(cp)
    /\ getFilePaths(root, f.path) # NoPaths

\* The command is invoked: main.ts:22-40 up to the first suspension.  With
\* the cache filled, getClaudeCodePath (main.ts:98-106) returns it;
\* otherwise it sets the flag and runs detectClaudeCode, whose
\* known-location loop is synchronous and whose PATH loop suspends.
Start(i) ==
    /\ pc[i] = "idle"
    /\ \A j \in 1..(i - 1) : pc[j] # "idle"
    /\ \E f \in ActiveFiles :
       \E fs \in IF detects(f) THEN FsStates ELSE {{}} :
       \E write \in IF detects(f) \/ writes(f, claudeCodePath)
                    THEN WriteResults ELSE {"written"} :
         LET early == getActiveMarkdownFile(f)
             hit == detectKnown(fs)
             k == nextWhich(1)
         IN  /\ file' = [file EXCEPT ![i] = f]
             /\ IF early # "none"
                THEN /\ Proceed(i, catch(Ended(early, Self(claudeCodePath,
                                                          detectionAttempted))))
                     /\ UNCHANGED <<claudePath, served, whichIdx, whichArgs,
                                    detectCalls, fsAtDetect>>
                ELSE IF cacheHit
                THEN /\ claudePath' = [claudePath EXCEPT ![i] = claudeCodePath]
                     /\ served' = [served EXCEPT
                                     ![i] = IF \E j \in Inv : pc[j] = "which"
                                            THEN "pending" ELSE "cache"]
                     /\ Proceed(i, afterLocate(f, claudeCodePath,
                                               Self(claudeCodePath,
                                                    detectionAttempted),
                                               now, write))
                     /\ UNCHANGED <<whichIdx, whichArgs, detectCalls,
                                    fsAtDetect>>
                ELSE /\ detectCalls' = detectCalls + 1
                     /\ fsAtDetect' = fs
                     /\ served' = [served EXCEPT ![i] = "detect"]
                     /\ IF hit # Null \/ k = 0
                        THEN /\ claudePath' = [claudePath EXCEPT ![i] = hit]
                             /\ Proceed(i, afterLocate(f, hit, Self(hit, TRUE),
                                                       now, write))
                             /\ UNCHANGED <<whichIdx, whichArgs>>
                        ELSE /\ whichIdx' = [whichIdx EXCEPT ![i] = k]
                             /\ whichArgs' = [whichArgs EXCEPT
                                                ![i] = Append(@, names[k])]
                             /\ Proceed(i, Waiting(k, Self(claudeCodePath,
                                                           TRUE)))
                             /\ UNCHANGED claudePath
    /\ UNCHANGED <<exited, cleanup, now, whichSeen, names, pureVars>>

\* A `which` process ends (main.ts:148-157): its answer is accepted and
\* cached (main.ts:104), or the next candidate is tried, or the detection
\* ends with null; then the handler goes on from main.ts:28.
WhichDone(i) ==
    /\ pc[i] = "which"
    /\ \E out \in WhichResults(names[whichIdx[i]]) :
       \E write \in IF writes(file[i], whichPath(out))
                    THEN WriteResults ELSE {"written"} :
         LET found == whichPath(out)
             k == nextWhich(whichIdx[i] + 1)
         IN  /\ whichSeen' = Append(whichSeen, out)
             /\ IF found # Null \/ k = 0
                THEN /\ claudePath' = [claudePath EXCEPT ![i] = found]
                     /\ Proceed(i, afterLocate(file[i], found,
                                               Self(found, detectionAttempted),
                                               now, write))
                     /\ UNCHANGED <<whichIdx, whichArgs>>
                ELSE /\ whichIdx' = [whichIdx EXCEPT ![i] = k]
                     /\ whichArgs' = [whichArgs EXCEPT
                                        ![i] = Append(@, names[k])]
                     /\ Proceed(i, Waiting(k, Self(claudeCodePath,
                                                   detectionAttempted)))
                     /\ UNCHANGED claudePath
    /\ UNCHANGED <<file, served, exited, cleanup, now, detectCalls,
                   fsAtDetect, names, pureVars>>

\* A callback that rejects when it could not delete the temp file.
execCallbackCleanupRejects(error, unlinked, self) ==
    IF error THEN Thrown("process", self)
    ELSE IF ~unlinked THEN Thrown("cleanup", self)
    ELSE [Ended("Launched", self) EXCEPT !.notice = "none"]

\* The callback of exec (main.ts:203-216) after its unlinkSync: a cleanup
\* error was only logged (main.ts:207-209); the promise rejects with the
\* error of the process, which main.ts:40 rethrows, or resolves.
execCallback(error, unlinked, self) ==
    IF error THEN Thrown("process", self)
    ELSE [Ended("Launched", self) EXCEPT !.notice = "none"]

\* The osascript process of invocation i ends and exec calls back
\* (main.ts:203-216).  unlinkSync removes the file of that name, whoever
\* wrote it last; it fails when the file is gone already, and it can fail
\* on a file that is there.
SubmitExit(i) ==
    /\ pc[i] = "osascript"
    /\ \E error \in BOOLEAN :
       \E unlinked \in IF tmp[tempFile[i]] = 0 THEN {FALSE} ELSE BOOLEAN :
         LET r == catch(execCallback(error, unlinked,
                                     Self(claudeCodePath, detectionAttempted)))
         IN  /\ exited' = [exited EXCEPT
                             ![i] = IF error THEN "error" ELSE "zero"]
             /\ cleanup' = [cleanup EXCEPT
                              ![i] = IF unlinked THEN "unlinked" ELSE "failed"]
             /\ tmp' = IF unlinked THEN [tmp EXCEPT ![tempFile[i]] = 0] ELSE tmp
             /\ pc' = [pc EXCEPT ![i] = r.pc]
             /\ outcome' = [outcome EXCEPT ![i] = r.outcome]
             /\ caught' = [caught EXCEPT ![i] = r.caught]
             /\ notices' = [notices EXCEPT
                              ![i] = IF r.notice = "none" THEN @
                                     ELSE Append(@, r.notice)]
             /\ claudeCodePath' = r.self.claudeCodePath
             /\ detectionAttempted' = r.self.detectionAttempted
    /\ UNCHANGED <<file, claudePath, served, whichIdx, tempFile, submission,
                   whichArgs, binaryRead, now, detectCalls, fsAtDetect,
                   whichSeen, names, pureVars>>

\* Time passes.  Date.now() is read only for the temp file's name
\* (main.ts:197), so a clock value no launch has read need not be told
\* from the next.
Tick ==
    /\ now < MaxClock
    /\ \E i \in Inv : tempFile[i] = now
    /\ now' = now + 1
    /\ UNCHANGED <<claudeCodePath, detectionAttempted, pc, file, claudePath,
                   served, whichIdx, tempFile, submission, whichArgs, notices,
                   outcome, caught, exited, cleanup, binaryRead, tmp,
                   detectCalls, fsAtDetect, whichSeen, names, pureVars>>

NoResult == [stage |-> "unset", val |-> Unset]

\* The plugin after construction (main.ts:11-12), no command invoked yet.
InitProg ==
    /\ claudeCodePath = Null
    /\ detectionAttempted = FALSE
    /\ pc = [i \in Inv |-> "idle"]
    /\ file = [i \in Inv |-> UnsetFile]
    /\ claudePath = [i \in Inv |-> Unset]
    /\ served = [i \in Inv |-> "none"]
    /\ whichIdx = [i \in Inv |-> 0]
    /\ tempFile = [i \in Inv |-> -1]
    /\ submission = [i \in Inv |-> <<>>]
    /\ whichArgs = [i \in Inv |-> <<>>]
    /\ notices = [i \in Inv |-> <<>>]
    /\ outcome = [i \in Inv |-> "none"]
    /\ caught = [i \in Inv |-> "none"]
    /\ exited = [i \in Inv |-> "none"]
    /\ cleanup = [i \in Inv |-> "none"]
    /\ binaryRead = [i \in Inv |-> Unset]
    /\ tmp = [t \in 0..MaxClock |-> 0]
    /\ now = 0
    /\ detectCalls = 0
    /\ fsAtDetect = {}
    /\ whichSeen = <<>>

Init ==
    /\ InitProg
    /\ names = binaryNames
    /\ arg = <<>>
    /\ root = BasePath
    /\ res = NoResult

Next == (\E i \in Inv : Start(i) \/ WhichDone(i) \/ SubmitExit(i)) \/ Tick

Spec == Init /\ [][Next]_vars

(***************************************************************************)
(* The two loops of detectClaudeCode over any list of candidate names: the *)
(* list of main.ts:115, and a list whose first name holds a character     *)
(* outside the pattern of main.ts:111 and whose last name is empty.        *)
(***************************************************************************)
CandidateLists ==
    {binaryNames,
     << <<"a", ";", "b">>, <<"claude">>, <<>> >>}

InitNames ==
    /\ InitProg
    /\ names \in CandidateLists
    /\ arg = <<>>
    /\ root = BasePath
    /\ res = NoResult

SpecNames == InitNames /\ [][Next]_vars

(***************************************************************************)
(* The handler with the processes it awaits ending sooner or later: exec   *)
(* and execAsync call back when their process exits.                       *)
(***************************************************************************)
SpecLive ==
    /\ Init
    /\ [][Next]_vars
    /\ \A i \in Inv : WF_vars(WhichDone(i)) /\ WF_vars(SubmitExit(i))

(***************************************************************************)
(* getFilePaths on its own: every document path up to MaxPathLen over a    *)
(* separator, a dot and an ordinary character, under two vault roots.      *)
(***************************************************************************)
PathAlphabet == {sep, ".", "a"}
PathStrings == StringsUpTo(PathAlphabet, MaxPathLen)
Roots == {<<sep, "a">>, <<sep, "a", sep, "a">>}

InitPath ==
    /\ InitProg
    /\ names = binaryNames
    /\ root \in Roots
    /\ arg \in PathStrings
    /\ res = NoResult

ApplyGetFilePaths ==
    /\ res.stage = "unset"
    /\ res' = [stage |-> "getFilePaths", val |-> getFilePaths(root, arg)]
    /\ UNCHANGED <<progVars, arg, root>>

NextPath == ApplyGetFilePaths

SpecPath == InitPath /\ [][NextPath]_vars

(***************************************************************************)
(* The two escaping layers on their own: every string up to MaxArgLen over *)
(* both quotes, the backslash, the space and an ordinary character.        *)
(***************************************************************************)
ArgAlphabet == {Quote, DQuote, BSlash, " ", "a"}
ArgStrings == StringsUpTo(ArgAlphabet, MaxArgLen)

InitEsc ==
    /\ InitProg
    /\ names = binaryNames
    /\ root = BasePath
    /\ arg \in ArgStrings
    /\ res = NoResult

ApplyEscapeShellArg ==
    /\ res.stage = "unset"
    /\ res' = [stage |-> "shell", val |-> escapeShellArg(arg)]
    /\ UNCHANGED <<progVars, arg, root>>

ApplyEscapeForAppleScript ==
    /\ res.stage = "shell"
    /\ res' = [stage |-> "script", val |-> escapeForAppleScript(res.val)]
    /\ UNCHANGED <<progVars, arg, root>>

NextEsc == ApplyEscapeShellArg \/ ApplyEscapeForAppleScript

SpecEsc == InitEsc /\ [][NextEsc]_vars

(***************************************************************************)
(* Properties.                                                             *)
(***************************************************************************)
\* p resolves to the resolved root or to a path below it.
InsideRoot(p) ==
    LET resolvedPath == resolve(p)
        resolvedBase == resolve(root)
    IN  resolvedPath = resolvedBase
        \/ startsWith(resolvedPath, Append(resolvedBase, sep))

\* For the documents of the handler under its root BasePath: the resolved
\* path of each document, the documents getFilePaths accepts, and, for every
\* path below or beside the root that a launch can be given, its resolved
\* path and whether that lies inside the root.
ResolvedDoc == [p \in DocPaths |-> resolve(BasePath \o <<sep>> \o p)]

AcceptedDocs == {p \in DocPaths : getFilePaths(BasePath, p) # NoPaths}

LaunchablePaths ==
    {join(BasePath, normalize(p)) : p \in DocPaths}
    \cup {BasePath \o <<sep>> \o p : p \in DocPaths}

ResolvedInside ==
    [n \in LaunchablePaths |->
        [resolved |-> resolve(n),
         inside |-> LET resolvedPath == resolve(n)
                        resolvedBase == resolve(BasePath)
                    IN  resolvedPath = resolvedBase
                        \/ startsWith(resolvedPath, Append(resolvedBase, sep))]]

\* The paths a detection over the names of main.ts:115 can return.
LocatablePaths ==
    {locationPatterns[p] \o binaryNames[b] :
        p \in DOMAIN locationPatterns, b \in DOMAIN binaryNames}
    \cup {PathDir \o binaryNames[b] : b \in DOMAIN binaryNames}

\* For an accepted document and a located binary: the full path, the
\* directory and the five-token command, as the script carries it.
FiveTokens ==
    [p \in AcceptedDocs, binary \in LocatablePaths |->
        LET fullPath == join(BasePath, normalize(p))
            dir == dirname(fullPath)
            command == <<"cd", " ">> \o escapeShellArg(dir)
                       \o <<" ", "&", "&", " ">> \o escapeShellArg(binary)
                       \o <<" ">> \o escapeShellArg(<<"@">> \o fullPath)
        IN  [notePath |-> fullPath, directory |-> dir,
             script |-> escapeForAppleScript(command)]]

IsMarkdown(i) == file[i] # UnsetFile /\ file[i].extension = <<"md">>

\* The detection has run and returned.
DetectionComplete == detectionAttempted /\ \A j \in Inv : pc[j] # "which"

HasDotDotSegment(p) ==
    \E k \in DOMAIN segments(p) : segments(p)[k] = DotDot

\* C1: every osascript process ever started is for the invocation's own
\* document, and that document's resolved absolute path is the resolved
\* vault root or lies below it (root + separator is a prefix of it).
C1_LaunchOnlyInsideRoot ==
    \A i \in Inv : \A k \in DOMAIN submission[i] :
        /\ root = BasePath
        /\ file[i].path \in DocPaths
        /\ submission[i][k].notePath \in DOMAIN ResolvedInside
        /\ ResolvedInside[submission[i][k].notePath].resolved
              = ResolvedDoc[file[i].path]
        /\ ResolvedInside[submission[i][k].notePath].inside

\* An invocation has launched while another, on a document of a sibling
\* directory that shares the root as a string prefix, was refused.
C1_Witness ==
    \E i, j \in Inv :
        /\ submission[i] # <<>>
        /\ file[j].path = <<".", ".", "/", "vault", "2", "/", "a", ".", "md">>
        /\ outcome[j] = "InvalidPath"
        /\ submission[j] = <<>>

C3_AcceptsPathsWithoutTraversal ==
    res.stage = "getFilePaths" /\ ~isAbsolute(arg) /\ ~HasDotDotSegment(arg)
        => /\ res.val # NoPaths
           /\ InsideRoot(res.val.fullPath)
           /\ resolve(resolve(res.val.fullPath)) = resolve(res.val.fullPath)

\* C4: the command text, read back first as the AppleScript literal and
\* then by the shell, is the one word that was escaped.
C4_RoundTrip ==
    res.stage = "script"
        => shellWords(appleScriptLiteral(res.val)) = <<arg>>

\* A string with both quotes that ends in a backslash has gone through
\* both layers.
C4_Witness ==
    /\ res.stage = "script"
    /\ arg = <<Quote, DQuote, BSlash>>
    /\ shellWords(appleScriptLiteral(res.val)) = <<arg>>

QuotesBefore(x, i) == Cardinality({j \in 1..(i - 1) : x[j] = Quote})

\* C5: the result of escapeShellArg starts and ends with a single quote,
\* and between them every character of the input stands in order, a single
\* quote as the four characters quote, backslash, quote, quote, any other
\* character as itself.
C5_ShellQuoteForm ==
    res.stage = "shell"
        => LET q == res.val
               n == Len(arg)
               at(i) == 2 + (i - 1) + 3 * QuotesBefore(arg, i)
           IN  /\ Len(q) = n + 2 + 3 * QuotesBefore(arg, n + 1)
               /\ q[1] = Quote
               /\ q[Len(q)] = Quote
               /\ \A i \in 1..n :
                     IF arg[i] = Quote
                     THEN SubSeq(q, at(i), at(i) + 3)
                             = <<Quote, BSlash, Quote, Quote>>
                     ELSE q[at(i)] = arg[i]

\* A name with two single quotes has been quoted.
C5_Witness ==
    /\ res.stage = "shell"
    /\ arg = <<Quote, "a", Quote>>
    /\ res.val = <<Quote, Quote, BSlash, Quote, Quote, "a",
                   Quote, BSlash, Quote, Quote, Quote>>

\* C6: detectClaudeCode is entered at most once, and a call of
\* getClaudeCodePath made after the detection has returned starts no
\* lookup and returns what the detecting call returned, null included.
C6_ProbesOnce ==
    /\ detectCalls <= 1
    /\ \A i \in Inv :
          served[i] = "cache"
            => /\ whichArgs[i] = <<>>
               /\ claudePath[i] = claudeCodePath
               /\ \A d \in Inv : served[d] = "detect"
                                   => claudePath[d] = claudePath[i]

\* The detection found nothing, and a later invocation was answered from
\* the cache with nothing.
C6_Witness ==
    \E i, d \in Inv :
        /\ served[d] = "detect"
        /\ claudePath[d] = Null
        /\ Len(whichSeen) = Len(binaryNames)
        /\ served[i] = "cache"
        /\ outcome[i] = "BinaryNotFound"

\* C7: once the one lookup has returned, every call of getClaudeCodePath
\* that has returned gave the lookup's result, so no invocation has
\* reported a missing binary when the lookup found one.
C7_EveryCallGetsTheLookupResult ==
    DetectionComplete
        => \A i \in Inv :
              /\ claudePath[i] # Unset => claudePath[i] = claudeCodePath
              /\ outcome[i] = "BinaryNotFound" => claudeCodePath = Null

\* C8: an invocation on a markdown document whose path getFilePaths
\* rejects starts no process at all, neither osascript nor `which`, and
\* ends with InvalidPath.
C8_RejectedPathSpawnsNothing ==
    \A i \in Inv :
        IsMarkdown(i) /\ getFilePaths(root, file[i].path) = NoPaths
            => /\ submission[i] = <<>>
               /\ whichArgs[i] = <<>>
               /\ pc[i] = "done" => outcome[i] = "InvalidPath"

\* No known-location file existed when the detection ran, and every
\* `which` of the detection failed.
NoCandidate ==
    /\ DetectionComplete
    /\ fsAtDetect = {}
    /\ Len(whichSeen) = Len(binaryNames)
    /\ \A k \in DOMAIN whichSeen : whichSeen[k] = WhichError

\* C9 as stated: with no candidate anywhere, an invocation on a markdown
\* document gets null, ends with BinaryNotFound and has started no process.
C9_NotFoundSpawnsNothing ==
    NoCandidate
        => \A i \in Inv :
              IsMarkdown(i) /\ pc[i] = "done"
                => /\ claudePath[i] = Null
                   /\ outcome[i] = "BinaryNotFound"
                   /\ submission[i] = <<>>
                   /\ tempFile[i] = -1
                   /\ whichArgs[i] = <<>>

\* C9 amended: with no candidate anywhere, an invocation on a markdown
\* document gets null, ends with BinaryNotFound, and has started no
\* osascript and written no temp file; the only processes are the `which`
\* lookups, one per candidate name, of the invocation that ran the
\* detection.
C9_NotFoundSpawnsNoSubmission ==
    NoCandidate
        => \A i \in Inv :
              IsMarkdown(i) /\ pc[i] = "done"
                => /\ claudePath[i] = Null
                   /\ outcome[i] = "BinaryNotFound"
                   /\ notices[i] = <<"BinaryNotFound">>
                   /\ submission[i] = <<>>
                   /\ tempFile[i] = -1
                   /\ whichArgs[i] = IF served[i] = "detect"
                                     THEN binaryNames ELSE <<>>

\* With no candidate anywhere, the detecting invocation and one after it
\* have both ended with BinaryNotFound.
C9_Witness ==
    /\ NoCandidate
    /\ \E i, d \in Inv :
          /\ served[d] = "detect" /\ outcome[d] = "BinaryNotFound"
          /\ whichArgs[d] = binaryNames
          /\ served[i] = "cache" /\ outcome[i] = "BinaryNotFound"

\* Invocation i has a markdown document, was given a binary path, has a
\* path getFilePaths accepts, and is past the start of its launch.
LaunchCase(i) ==
    /\ IsMarkdown(i)
    /\ claudePath[i] \notin {Null, Unset}
    /\ pc[i] \in {"osascript", "done"}
    /\ root = BasePath
    /\ file[i].path \in AcceptedDocs

\* C10 as stated: such an invocation has started exactly one process, the
\* osascript; and no invocation has started more than one osascript.
C10_ExactlyOneProcess ==
    \A i \in Inv :
        /\ Len(submission[i]) <= 1
        /\ LaunchCase(i)
             => Len(submission[i]) = 1 /\ whichArgs[i] = <<>>

\* C10 amended: such an invocation has started exactly one osascript,
\* unless writing the temp file failed, and then none; apart from it, it
\* has started only the `which` lookups of the detection it ran itself, at
\* most one per candidate name; and no invocation has started more than
\* one osascript.
C10_AtMostOneSubmission ==
    \A i \in Inv :
        /\ Len(submission[i]) <= 1
        /\ Len(whichArgs[i]) <= Len(binaryNames)
        /\ served[i] # "detect" => whichArgs[i] = <<>>
        /\ LaunchCase(i)
             => \/ Len(submission[i]) = 1
                \/ /\ submission[i] = <<>>
                   /\ tempFile[i] # -1
                   /\ outcome[i] = "LaunchFailure"

\* An invocation that looked the binary up on the search path has gone on
\* to launch and failed, and was not started again.
C10_Witness ==
    \E i \in Inv :
        /\ LaunchCase(i)
        /\ whichArgs[i] # <<>>
        /\ Len(submission[i]) = 1
        /\ outcome[i] = "LaunchFailure"

\* C11: when an invocation has completed, the temp file it created no
\* longer exists: nothing of what it wrote under its temp name is left.
C11_TempFileGoneWhenCompleted ==
    \A i \in Inv :
        (pc[i] = "done" /\ tempFile[i] # -1) => tmp[tempFile[i]] # i

\* C12: launchTerminal resolves exactly when its osascript process exits
\* zero, and rejects with the error of the process otherwise, whether the
\* temp file could be deleted or not.
C12_OutcomeFollowsExit ==
    \A i \in Inv :
        /\ outcome[i] = "Launched" => exited[i] = "zero"
        /\ exited[i] = "zero"
              => pc[i] = "done" /\ outcome[i] = "Launched"
                                /\ caught[i] = "none"
        /\ exited[i] = "error"
              => pc[i] = "done" /\ outcome[i] = "LaunchFailure"
                                /\ caught[i] = "process"

\* A launch resolved although its temp file could not be deleted.
C12_Witness ==
    \E i \in Inv :
        /\ exited[i] = "zero"
        /\ cleanup[i] = "failed"
        /\ outcome[i] = "Launched"

\* C13: an invocation that ends in an error kind has raised exactly one
\* notice, the one of that kind, and has returned with nothing thrown out
\* of the handler; one that launched, or that still runs, has raised none.
C13_OneNoticePerError ==
    \A i \in Inv :
        IF pc[i] = "done"
        THEN \/ /\ outcome[i] \in {"NoActiveDocument", "UnsupportedDocumentType",
                                   "BinaryNotFound", "InvalidPath",
                                   "LaunchFailure"}
                /\ notices[i] = <<outcome[i]>>
             \/ /\ outcome[i] = "Launched"
                /\ notices[i] = <<>>
        ELSE notices[i] = <<>>

\* The temp file could not be written: one notice, nothing thrown further.
C13_Witness ==
    \E i \in Inv :
        /\ pc[i] = "done"
        /\ caught[i] = "write"
        /\ outcome[i] = "LaunchFailure"
        /\ notices[i] = <<"LaunchFailure">>

\* C14: every name passed to a `which` process matches the pattern, and a
\* known-location file under a name that fails it is never the result.
C14_OnlyValidNamesUsed ==
    /\ \A i \in Inv : \A k \in 1..Len(whichArgs[i]) :
          /\ whichArgs[i][k] # <<>>
          /\ \A c \in 1..Len(whichArgs[i][k]) : whichArgs[i][k][c] \in NameChars
    /\ \A n \in DOMAIN knownCandidates :
          claudeCodePath = knownCandidates[n].fullPath
              => isValidBinaryName(knownCandidates[n].binary)

\* The first name fails the pattern and a file of that name exists in a
\* known location: the detection passed it by and asked for the second.
C14_Witness ==
    \E d \in Inv :
        /\ served[d] = "detect"
        /\ ~isValidBinaryName(names[1])
        /\ (locationPatterns[1] \o names[1]) \in fsAtDetect
        /\ whichArgs[d] = <<names[2]>>

\* C15: the command a launch puts into its script is `cd`, the quoted
\* directory, `&&`, the quoted binary and the quoted `@` + full path, with
\* one space between them; the full path is the root joined with the
\* normalized document path, the directory is the one that holds it, and
\* the binary is the path the invocation got from getClaudeCodePath.
C15_CommandIsFiveTokens ==
    \A i \in Inv : \A n \in 1..Len(submission[i]) :
        /\ root = BasePath
        /\ file[i].path \in AcceptedDocs
        /\ claudePath[i] \in LocatablePaths
        /\ LET expected == FiveTokens[file[i].path, claudePath[i]]
           IN  /\ submission[i][n].script = expected.script
               /\ submission[i][n].notePath = expected.notePath
               /\ submission[i][n].directory = expected.directory

\* A launch on a note in a folder, under a name with a quote and spaces,
\* with the binary found on the search path.
C15_Witness ==
    \E i \in Inv :
        /\ Len(submission[i]) = 1
        /\ file[i].path = <<"n", "/", "b", "'", "s", " ", "c", ".", "md">>
        /\ claudePath[i] = PathDir \o <<"claude">>
        /\ submission[i][1].directory = <<"/", "vault", "/", "n">>

\* C16: two invocations that both launch use temp files of their own, and
\* while the osascript process of an invocation runs, the file it wrote is
\* there as it wrote it: no other invocation has overwritten or deleted it.
C16_OwnTempFile ==
    \A i \in Inv :
        /\ pc[i] = "osascript" => tmp[tempFile[i]] = i
        /\ \A j \in Inv \ {i} :
              (submission[i] # <<>> /\ submission[j] # <<>>)
                  => tempFile[i] # tempFile[j]

\* C17: when a known install directory holds a candidate, the detection
\* returns a known-location path and starts no `which`; the path returned
\* is the first existing one in the order of the loops, the directories in
\* their order and, within a directory, the names in theirs.
C17_KnownLocationsFirst ==
    \A d \in Inv :
        (served[d] = "detect" /\ fsAtDetect # {})
            => /\ whichArgs[d] = <<>>
               /\ \E p0 \in DOMAIN locationPatterns, b0 \in DOMAIN names :
                     /\ claudePath[d] = locationPatterns[p0] \o names[b0]
                     /\ claudePath[d] \in fsAtDetect
                     /\ \A p \in DOMAIN locationPatterns, b \in DOMAIN names :
                           (locationPatterns[p] \o names[b]) \in fsAtDetect
                               => p0 < p \/ (p0 = p /\ b0 <= b)

\* `claude` exists in the first directory and `claude-code` in the last:
\* the detection returned the one in the first directory.
C17_Witness ==
    \E d \in Inv :
        /\ served[d] = "detect"
        /\ fsAtDetect = {locationPatterns[1] \o binaryNames[2],
                         locationPatterns[3] \o binaryNames[1]}
        /\ claudePath[d] = locationPatterns[1] \o binaryNames[2]
        /\ whichArgs[d] = <<>>

\* A non-empty absolute path on one line.
WellFormedPath(p) ==
    p # <<>> /\ Head(p) = sep /\ \A k \in DOMAIN p : p[k] # "\n"

\* A `which` that succeeded and printed, around white space, such a path.
Accepted(out) == out # WhichError /\ WellFormedPath(trim(out))

\* C18: the cached path is always absent or a non-empty absolute one-line
\* path.  In the search-path phase an answer that is an error, empty,
\* multi-line or not absolute makes the detection ask for the next name;
\* the first other answer is the result; and when the answers for all names
\* were of the first sort the detection returns null, nothing is thrown,
\* and the invocation ends with BinaryNotFound.
C18_MalformedLookupsRejected ==
    /\ claudeCodePath = Null \/ WellFormedPath(claudeCodePath)
    /\ \A d \in Inv :
          (served[d] = "detect" /\ fsAtDetect = {})
              => LET n == Len(whichSeen)
                 IN  /\ \A k \in 1..(n - 1) : ~Accepted(whichSeen[k])
                     /\ IF n > 0 /\ Accepted(whichSeen[n])
                        THEN /\ claudeCodePath = trim(whichSeen[n])
                             /\ claudePath[d] = claudeCodePath
                             /\ whichArgs[d] = SubSeq(names, 1, n)
                        ELSE IF n = Len(names)
                        THEN /\ claudeCodePath = Null
                             /\ claudePath[d] = Null
                             /\ whichArgs[d] = names
                             /\ pc[d] = "done"
                             /\ outcome[d] = "BinaryNotFound"
                             /\ caught[d] = "none"
                        ELSE /\ claudeCodePath = Null
                             /\ pc[d] = "which"
                             /\ whichArgs[d] = SubSeq(names, 1, n + 1)

\* The lookup of the first name printed two lines and that of the second a
\* relative path: the detection returned null.
C18_Witness ==
    \E d \in Inv :
        /\ served[d] = "detect"
        /\ whichSeen = << PathDir \o binaryNames[1] \o <<"\n">>
                            \o PathDir \o binaryNames[1] \o <<"\n">>,
                          binaryNames[2] \o <<"\n">> >>
        /\ claudeCodePath = Null
        /\ outcome[d] = "BinaryNotFound"

\* C19: launchTerminal leaves the launcher's fields alone.  In the step in
\* which an invocation runs launchTerminal up to its exec or its throw,
\* the cached path is afterwards what getClaudeCodePath had just returned
\* to that invocation and the flag is set; in the step in which its
\* osascript process ends and the launch resolves or rejects, neither
\* field changes.
C19_LaunchLeavesLauncherState ==
    [][\A i \in Inv :
         /\ tempFile'[i] # tempFile[i]
               => claudeCodePath' = claudePath'[i] /\ detectionAttempted'
         /\ (pc[i] = "osascript" /\ pc'[i] # "osascript")
               => UNCHANGED <<claudeCodePath, detectionAttempted>>]_vars

\* One launch could not write its script and another saw its process
\* fail; the binary found before them is still cached.
C19_Witness ==
    \E i, j \in Inv :
        /\ caught[i] = "write"
        /\ exited[j] = "error"
        /\ claudeCodePath = claudePath[i]
        /\ claudeCodePath # Null
        /\ detectionAttempted

\* An invocation that awaits a process completes once the processes it
\* awaits have exited.
EventuallyCompletes ==
    \A i \in Inv : (pc[i] \in {"which", "osascript"}) ~> (pc[i] = "done")

\* As long as the osascript process of an invocation has not exited, the
\* invocation stays where it is and the file under its temp name stays.
HungLaunchKeepsFile ==
    [][\A i \in Inv :
         (pc[i] = "osascript" /\ exited'[i] = exited[i])
             => /\ pc'[i] = "osascript"
                /\ tmp[tempFile[i]] # 0 => tmp'[tempFile[i]] # 0]_vars

\* C20: every invocation completes provided the processes it awaits exit;
\* and an invocation whose osascript process never exits never completes,
\* and its temp file is never deleted.
C20_CompletesUnlessHung == EventuallyCompletes /\ HungLaunchKeepsFile

\* An invocation that has no active file, or one that is not markdown,
\* ends with the notice for that, has asked getClaudeCodePath nothing and
\* has started no lookup; an invocation on a markdown document has called
\* getClaudeCodePath, whatever its path, and one that ends with InvalidPath
\* was given a binary path first.
LookupFollowsTypeCheck ==
    \A i \in Inv :
        /\ outcome[i] \in {"NoActiveDocument", "UnsupportedDocumentType"}
              => /\ ~IsMarkdown(i)
                 /\ served[i] = "none"
                 /\ claudePath[i] = Unset
                 /\ whichArgs[i] = <<>>
        /\ (IsMarkdown(i) /\ pc[i] # "idle")
              => /\ served[i] \in {"detect", "cache", "pending"}
                 /\ detectionAttempted
        /\ outcome[i] = "InvalidPath"
              => /\ served[i] \in {"detect", "cache"}
                 /\ claudePath[i] = claudeCodePath
                 /\ claudeCodePath # Null

\* The step in which an invocation ends with one of the two notices of
\* getActiveMarkdownFile changes neither the cached path nor the flag, and
\* does not enter detectClaudeCode.
TypeCheckLeavesCache ==
    [][\A i \in Inv :
         (pc[i] = "idle"
            /\ outcome'[i] \in {"NoActiveDocument", "UnsupportedDocumentType"})
             => UNCHANGED <<claudeCodePath, detectionAttempted, detectCalls>>]_vars

\* C21: an invocation that ends with NoActiveDocument or with
\* UnsupportedDocumentType performs no binary lookup and leaves the cached
\* path and the flag as they were; an invocation whose document passes the
\* type check looks the binary up before its path is validated, so that
\* an invocation ending with InvalidPath can be the one that filled the
\* cache.
C21_LookupAfterTypeCheckOnly == []LookupFollowsTypeCheck /\ TypeCheckLeavesCache

\* A first invocation without an active file left the cache untouched; the
\* next, on a document outside the vault, ran the detection, found the
\* binary on the search path, filled the cache and ended with InvalidPath.
C21_Witness ==
    \E i, j \in Inv :
        /\ outcome[j] = "NoActiveDocument"
        /\ j < i
        /\ served[i] = "detect"
        /\ whichArgs[i] # <<>>
        /\ outcome[i] = "InvalidPath"
        /\ detectCalls = 1
        /\ claudeCodePath = PathDir \o binaryNames[1]

\* C22: whenever launchTerminal has built its command, the cached path it
\* read at that moment was present and was the path getClaudeCodePath had
\* returned to the same invocation; no launch ran into a missing path, and
\* the script of every osascript started carries that path.
C22_LaunchReadsReturnedPath ==
    \A i \in Inv :
        /\ caught[i] # "TypeError"
        /\ binaryRead[i] # Unset
              => /\ binaryRead[i] # Null
                 /\ binaryRead[i] = claudePath[i]
        /\ tempFile[i] # -1 => binaryRead[i] # Unset
        /\ \A n \in 1..Len(submission[i]) :
              /\ file[i].path \in AcceptedDocs
              /\ binaryRead[i] \in LocatablePaths
              /\ submission[i][n].script
                    = FiveTokens[file[i].path, binaryRead[i]].script

\* While the detecting invocation awaited `which`, a second invocation was
\* answered null from the cache and launched nothing; the detecting one
\* then found the binary and launched with the path it was returned.
C22_Witness ==
    \E i, j \in Inv :
        /\ served[i] = "detect"
        /\ whichArgs[i] # <<>>
        /\ served[j] = "pending"
        /\ binaryRead[j] = Unset
        /\ outcome[j] = "BinaryNotFound"
        /\ submission[i] # <<>>
        /\ binaryRead[i] = claudePath[i]
        /\ binaryRead[i] = claudeCodePath
====
